---- MODULE Spec2Model ----
(***************************************************************************)
(* Todo CRUD service (main.py): four data endpoints over one document      *)
(* collection.  Values follow Python/JSON: None is the empty tuple and a   *)
(* concrete value v is the one-element tuple <<v>>, so that values of      *)
(* different types can sit in the same document.  Documents and dicts are  *)
(* functions from key names to such values.                                *)
(***************************************************************************)
EXTENDS Integers, Sequences, FiniteSets, TLC

VARIABLES db, store, nextOid, now, pc, req, resp, ops, created, deleted

vars == <<db, store, nextOid, now, pc, req, resp, ops, created, deleted>>

\* ---------------------------------------------------------------- bounds
MaxOid == 2
MaxClock == 3

\* ---------------------------------------------------------------- values
None == <<>>
EmptyDict == [k \in {} |-> None]

Get(doc, k) == IF k \in DOMAIN doc THEN doc[k] ELSE None
GetDefault(doc, k, default) == IF k \in DOMAIN doc THEN doc[k] ELSE default

PayloadKeys == {"title", "description", "completed", "priority"}

\* ------------------------------------------------------------- ObjectId
\* A path string is a sequence of character codes: 0..9 are '0'..'9',
\* 10..15 are 'a'..'f', 16..21 are 'A'..'F', 22 is a non-hex character.
OidBytes == 12
HexVal(c) == IF c <= 15 THEN c ELSE c - 6
IsHexChar(c) == c \in 0..21

\* a validity test that only counts the characters
ObjectIdValidLengthOnly(s) == Len(s) = 2 * OidBytes
ObjectIdValid(s) == Len(s) = 2 * OidBytes /\ \A i \in 1..Len(s) : IsHexChar(s[i])
\* ObjectId(todo_id): the 12 bytes the 24 hex digits denote
ObjectId(s) == [i \in 1..OidBytes |-> 16 * HexVal(s[2 * i - 1]) + HexVal(s[2 * i])]
\* str(oid): 24 lowercase hex digits
StrOid(oid) == [i \in 1..(2 * Len(oid)) |->
                  IF i % 2 = 1 THEN oid[(i + 1) \div 2] \div 16 ELSE oid[i \div 2] % 16]
\* the same digits with the letters in upper case
Upper(s) == [i \in 1..Len(s) |-> IF s[i] \in 10..15 THEN s[i] + 6 ELSE s[i]]

\* the n-th identifier the store assigns (the low byte carries the counter)
NewOid(n) == [i \in 1..OidBytes |-> IF i = OidBytes THEN 169 + n ELSE 0]

\* ------------------------------------------------------- request models
\* A JSON body gives each key as <<>> (key absent) or <<v>> (key present
\* with the JSON value v, where v may be None).
Absent == <<>>
Present(v) == <<v>>

\* defaults with the priority default off by one
TodoCreateDefaultShifted(k) == IF k = "completed" THEN <<FALSE>>
                               ELSE IF k = "priority" THEN <<1>>
                               ELSE None
TodoCreateDefault(k) == IF k = "completed" THEN <<FALSE>>
                        ELSE IF k = "priority" THEN <<2>>
                        ELSE None
\* TodoCreate: title is required, the other fields take their defaults
TodoCreateValid(body) == body["title"] # Absent /\ body["title"][1] # None
TodoCreate(body) == [k \in PayloadKeys |->
                       IF body[k] = Absent THEN TodoCreateDefault(k) ELSE body[k][1]]

\* TodoUpdate: every field Optional with default None
TodoUpdate(body) == [k \in PayloadKeys |-> IF body[k] = Absent THEN None ELSE body[k][1]]

\* a dump that keeps the None fields
ModelDumpAll(payload) == payload
\* payload.model_dump(exclude_none=True)
ModelDumpExcludeNone(payload) == [k \in {f \in DOMAIN payload : payload[f] # None} |-> payload[k]]

\* ----------------------------------------------------- store operations
\* The collection is a set of documents; "_id" holds the ObjectId.
Matching(coll, oid) == {d \in coll : Get(d, "_id") = <<oid>>}

SetFields(doc, fields) == [k \in DOMAIN doc \cup DOMAIN fields |->
                             IF k \in DOMAIN fields THEN fields[k] ELSE doc[k]]

\* an update that replaces the matched document by the supplied fields
UpdateOneReplace(coll, oid, fields) ==
  IF {d \in coll : Get(d, "_id") = <<oid>>} = {}
    THEN [coll |-> coll, matched_count |-> 0]
    ELSE LET d == CHOOSE m \in {x \in coll : Get(x, "_id") = <<oid>>} : TRUE
         IN [coll |-> (coll \ {d}) \cup
                        {[k \in {"_id"} \cup DOMAIN fields |-> IF k = "_id" THEN d[k] ELSE fields[k]]},
             matched_count |-> 1]
\* an update that inserts the fields when nothing matches (upsert)
UpdateOneUpsert(coll, oid, fields) ==
  IF {d \in coll : Get(d, "_id") = <<oid>>} = {}
    THEN [coll |-> coll \cup
                     {[k \in {"_id"} \cup DOMAIN fields |-> IF k = "_id" THEN <<oid>> ELSE fields[k]]},
          matched_count |-> 0]
    ELSE LET d == CHOOSE m \in {x \in coll : Get(x, "_id") = <<oid>>} : TRUE
         IN [coll |-> (coll \ {d}) \cup
                        {[k \in DOMAIN d \cup DOMAIN fields |->
                            IF k \in DOMAIN fields THEN fields[k] ELSE d[k]]},
             matched_count |-> 1]
\* update_one({"_id": oid}, {"$set": fields})
UpdateOne(coll, oid, fields) ==
  IF Matching(coll, oid) = {}
    THEN [coll |-> coll, matched_count |-> 0]
    ELSE LET d == CHOOSE m \in Matching(coll, oid) : TRUE
         IN [coll |-> (coll \ {d}) \cup {SetFields(d, fields)}, matched_count |-> 1]

\* a delete that reports the match but leaves the document in place
DeleteOneKeeps(coll, oid) ==
  [coll |-> coll,
   deleted_count |-> IF {d \in coll : Get(d, "_id") = <<oid>>} = {} THEN 0 ELSE 1]
\* delete_one({"_id": oid})
DeleteOne(coll, oid) ==
  IF Matching(coll, oid) = {}
    THEN [coll |-> coll, deleted_count |-> 0]
    ELSE LET d == CHOOSE m \in Matching(coll, oid) : TRUE
         IN [coll |-> coll \ {d}, deleted_count |-> 1]

\* find_one({"_id": oid}): the document, or None (the empty dict here)
FindOne(coll, oid) ==
  IF Matching(coll, oid) = {} THEN EmptyDict ELSE CHOOSE m \in Matching(coll, oid) : TRUE

\* Todo(**payload.model_dump()): the schema carries the four payload fields
Todo(payload) == [k \in PayloadKeys |-> payload[k]]

\* create_document(COLLECTION, todo): stamps created_at, inserts the
\* document under a fresh identifier and returns str(inserted_id)
CreateDocument(coll, todo, n, t) ==
  LET data == SetFields(todo, [k \in {"_id", "created_at"} |->
                                 IF k = "_id" THEN <<NewOid(n)>> ELSE <<t>>])
  IN [coll |-> coll \cup {data}, inserted_id |-> StrOid(NewOid(n))]

\* get_documents(COLLECTION, {}, None): every document, in an order the
\* store chooses
IsOrderOf(seq, coll) == /\ Len(seq) = Cardinality(coll)
                        /\ \A d \in coll : \E i \in 1..Len(seq) : seq[i] = d
GetDocuments(coll) == {seq \in [1..Cardinality(coll) -> coll] : IsOrderOf(seq, coll)}

\* -------------------------------------------------------- serialization
serialize_todo(doc) ==
  IF DOMAIN doc = {} THEN EmptyDict
  ELSE [k \in {"id", "title", "description", "completed", "priority",
               "created_at", "updated_at"} |->
          IF k = "id" THEN (IF Get(doc, "_id") = None THEN None ELSE <<StrOid(Get(doc, "_id")[1])>>)
          ELSE IF k = "completed"
            THEN (IF GetDefault(doc, "completed", <<FALSE>>) = None THEN <<FALSE>>
                  ELSE GetDefault(doc, "completed", <<FALSE>>))
          ELSE IF k = "priority" THEN GetDefault(doc, "priority", <<2>>)
          ELSE Get(doc, k)]

\* ------------------------------------------------------------ responses
Workers == {"w1", "w2"}

Response(status, detail, todo, todos, success) ==
  [status |-> status, detail |-> detail, todo |-> todo, todos |-> todos, success |-> success]
HTTPException(status, detail) == Response(status, detail, EmptyDict, <<>>, FALSE)
TodoResponse(dict) == Response(200, "", dict, <<>>, FALSE)
NoResponse == Response(0, "", EmptyDict, <<>>, FALSE)

\* a request (operation, path id, JSON body) and the locals its handler
\* carries over a store call: inserted_id (create_todo) and the updated_at
\* stamp (update_todo)
Request(op, todo_id, body) ==
  [op |-> op, todo_id |-> todo_id, body |-> body, inserted_id |-> <<>>, stamp |-> None]
NoRequest == Request("none", <<>>, EmptyDict)

\* a handle test that never sees the missing handle
DbAssumed(handle) == TRUE
DbConfigured(handle) == handle

\* --------------------------------------------------------------- inputs
CreateBodies ==
  {[title |-> t, description |-> d, completed |-> c, priority |-> p] :
     t \in {Absent, Present(None), Present(<<"a">>)},
     d \in {Absent, Present(None), Present(<<"d">>)},
     c \in {Absent, Present(<<TRUE>>)}, p \in {Absent, Present(<<1>>)}}

UpdateBodies ==
  {[title |-> t, description |-> d, completed |-> c, priority |-> p] :
     t \in {Absent, Present(<<"b">>)},
     d \in {Absent, Present(None), Present(<<"d">>)},
     c \in {Absent, Present(None), Present(<<TRUE>>), Present(<<FALSE>>)},
     p \in {Absent, Present(<<1>>)}}

\* identifiers the store assigns, one it never assigns (counter 0), the
\* upper-case spelling of the first, a short string and a 24-character
\* string with a non-hex character
WellFormedIds == {StrOid(NewOid(n)) : n \in 0..MaxOid} \cup {Upper(StrOid(NewOid(1)))}
MalformedIds == {<<22, 22>>, [i \in 1..(2 * OidBytes) |-> IF i = 1 THEN 22 ELSE 0]}
PathIds == WellFormedIds \cup MalformedIds

\* ------------------------------------------------------------- handlers
\* update_todo up to the store write (lines 104-116).  done = FALSE means
\* the handler goes on to the read-back.
UpdateWrite(coll, todo_id, payload, t) ==
  IF ~DbConfigured(db)
    THEN [done |-> TRUE, resp |-> HTTPException(500, "Database not configured"),
          coll |-> coll, ops |-> <<>>, ticks |-> 0]
  ELSE IF ~ObjectIdValid(todo_id)
    THEN [done |-> TRUE, resp |-> HTTPException(400, "Invalid ID"),
          coll |-> coll, ops |-> <<>>, ticks |-> 0]
  ELSE LET update_data == ModelDumpExcludeNone(payload) IN
    IF DOMAIN update_data = {}
      THEN [done |-> TRUE, resp |-> HTTPException(400, "No fields to update"),
            coll |-> coll, ops |-> <<>>, ticks |-> 0]
    ELSE LET stamped == SetFields(update_data, [k \in {"updated_at"} |-> <<t>>])
             result == UpdateOne(coll, ObjectId(todo_id), stamped)
         IN IF result.matched_count = 0
              THEN [done |-> TRUE, resp |-> HTTPException(404, "Todo not found"),
                    coll |-> result.coll, ops |-> <<"update_one">>, ticks |-> 1]
              ELSE [done |-> FALSE, resp |-> NoResponse,
                    coll |-> result.coll, ops |-> <<"update_one">>, ticks |-> 1]

\* update_todo's read-back (lines 117-118)
UpdateReadBack(coll, todo_id) == TodoResponse(serialize_todo(FindOne(coll, ObjectId(todo_id))))

\* create_todo up to the insert (lines 88-91)
CreateInsert(coll, body, n, t) ==
  IF ~TodoCreateValid(body)
    THEN [done |-> TRUE, resp |-> HTTPException(422, "Field required"),
          coll |-> coll, ops |-> <<>>, ticks |-> 0, inserted_id |-> <<>>]
  ELSE IF ~DbConfigured(db)
    THEN [done |-> TRUE, resp |-> HTTPException(500, "Database not configured"),
          coll |-> coll, ops |-> <<>>, ticks |-> 0, inserted_id |-> <<>>]
  ELSE LET r == CreateDocument(coll, Todo(TodoCreate(body)), n, t)
       IN [done |-> FALSE, resp |-> NoResponse, coll |-> r.coll,
           ops |-> <<"insert_one">>, ticks |-> 1, inserted_id |-> r.inserted_id]

\* create_todo's read-back (lines 92-93)
CreateReadBack(coll, inserted_id) == TodoResponse(serialize_todo(FindOne(coll, ObjectId(inserted_id))))

\* delete_todo (lines 122-131)
DeleteResult(coll, todo_id) ==
  IF ~DbConfigured(db)
    THEN [resp |-> HTTPException(500, "Database not configured"), coll |-> coll, ops |-> <<>>]
  ELSE IF ~ObjectIdValid(todo_id)
    THEN [resp |-> HTTPException(400, "Invalid ID"), coll |-> coll, ops |-> <<>>]
  ELSE LET result == DeleteOne(coll, ObjectId(todo_id))
       IN IF result.deleted_count = 0
            THEN [resp |-> HTTPException(404, "Todo not found"),
                  coll |-> result.coll, ops |-> <<"delete_one">>]
            ELSE [resp |-> Response(200, "", EmptyDict, <<>>, TRUE),
                  coll |-> result.coll, ops |-> <<"delete_one">>]

\* a listing that serializes only the first document
ListResultFirstOnly(docs) ==
  [status |-> 200, detail |-> "", todo |-> EmptyDict,
   todos |-> [i \in 1..(IF Len(docs) > 1 THEN 1 ELSE Len(docs)) |-> serialize_todo(docs[i])],
   success |-> FALSE]
\* list_todos (lines 97-100) for one retrieval order
ListResult(docs) ==
  Response(200, "", EmptyDict, [i \in 1..Len(docs) |-> serialize_todo(docs[i])], FALSE)

\* ----------------------------------------------------------------- Init
Init ==
  /\ db \in BOOLEAN
  /\ store = {}
  /\ nextOid = 1
  /\ now = 0
  /\ pc = [w \in Workers |-> "ready"]
  /\ req = [w \in Workers |-> NoRequest]
  /\ resp = [w \in Workers |-> NoResponse]
  /\ ops = [w \in Workers |-> <<>>]
  /\ created = {}
  /\ deleted = {}

\* ------------------------------------------- handlers run start to end
\* A handler is an async function without an await: on one event loop it
\* runs from its first line to its response before another one starts.
create_todo(w, body) ==
  LET r == CreateInsert(store, body, nextOid, now) IN
  /\ pc[w] = "ready"
  /\ ~r.done => nextOid <= MaxOid /\ now < MaxClock
  /\ req' = [req EXCEPT ![w] = [Request("create", <<>>, body)
                                  EXCEPT !.inserted_id = r.inserted_id]]
  /\ store' = r.coll
  /\ now' = now + r.ticks
  /\ nextOid' = IF r.done THEN nextOid ELSE nextOid + 1
  /\ created' = IF r.done THEN created ELSE created \cup {NewOid(nextOid)}
  /\ resp' = [resp EXCEPT ![w] = IF r.done THEN r.resp ELSE CreateReadBack(r.coll, r.inserted_id)]
  /\ ops' = [ops EXCEPT ![w] = IF r.done THEN r.ops ELSE Append(r.ops, "find_one")]
  /\ pc' = [pc EXCEPT ![w] = "responding"]
  /\ UNCHANGED <<db, deleted>>

list_todos(w) ==
  /\ pc[w] = "ready"
  /\ req' = [req EXCEPT ![w] = Request("list", <<>>, EmptyDict)]
  /\ IF ~DbConfigured(db)
       THEN /\ resp' = [resp EXCEPT ![w] = HTTPException(500, "Database not configured")]
            /\ ops' = [ops EXCEPT ![w] = <<>>]
       ELSE /\ \E docs \in GetDocuments(store) : resp' = [resp EXCEPT ![w] = ListResult(docs)]
            /\ ops' = [ops EXCEPT ![w] = <<"find">>]
  /\ pc' = [pc EXCEPT ![w] = "responding"]
  /\ UNCHANGED <<db, store, nextOid, now, created, deleted>>

update_todo(w, todo_id, body) ==
  LET r == UpdateWrite(store, todo_id, TodoUpdate(body), now) IN
  /\ pc[w] = "ready"
  /\ r.ticks > 0 => now < MaxClock
  /\ req' = [req EXCEPT ![w] = [Request("update", todo_id, body)
                                  EXCEPT !.stamp = IF r.ticks > 0 THEN <<now>> ELSE None]]
  /\ store' = r.coll
  /\ now' = now + r.ticks
  /\ resp' = [resp EXCEPT ![w] = IF r.done THEN r.resp ELSE UpdateReadBack(r.coll, todo_id)]
  /\ ops' = [ops EXCEPT ![w] = IF r.done THEN r.ops ELSE Append(r.ops, "find_one")]
  /\ pc' = [pc EXCEPT ![w] = "responding"]
  /\ UNCHANGED <<db, nextOid, created, deleted>>

delete_todo(w, todo_id) ==
  LET r == DeleteResult(store, todo_id) IN
  /\ pc[w] = "ready"
  /\ req' = [req EXCEPT ![w] = Request("delete", todo_id, EmptyDict)]
  /\ store' = r.coll
  /\ resp' = [resp EXCEPT ![w] = r.resp]
  /\ ops' = [ops EXCEPT ![w] = r.ops]
  /\ deleted' = IF r.resp.status = 200 THEN deleted \cup {ObjectId(todo_id)} ELSE deleted
  /\ pc' = [pc EXCEPT ![w] = "responding"]
  /\ UNCHANGED <<db, nextOid, now, created>>

\* the response leaves the service and the worker takes the next request
Respond(w) ==
  /\ pc[w] = "responding"
  /\ pc' = [pc EXCEPT ![w] = "ready"]
  /\ req' = [req EXCEPT ![w] = NoRequest]
  /\ resp' = [resp EXCEPT ![w] = NoResponse]
  /\ ops' = [ops EXCEPT ![w] = <<>>]
  /\ UNCHANGED <<db, store, nextOid, now, created, deleted>>

Next ==
  \/ \E body \in CreateBodies : create_todo("w1", body)
  \/ list_todos("w1")
  \/ \E todo_id \in PathIds, body \in UpdateBodies : update_todo("w1", todo_id, body)
  \/ \E todo_id \in PathIds : delete_todo("w1", todo_id)
  \/ Respond("w1")

Spec == Init /\ [][Next]_vars

\* ------------------------------------- handlers of concurrent workers
\* Several workers serve the same store.  Each store call is one step of
\* its handler, and another worker's call may fall between a handler's
\* write and its read-back.
ConcCreateBodies ==
  {[title |-> Present(<<"a">>), description |-> Absent, completed |-> Absent, priority |-> Absent]}

ConcUpdateBodies ==
  {[title |-> Absent, description |-> Absent, completed |-> Present(<<TRUE>>), priority |-> Absent],
   [title |-> Absent, description |-> Absent, completed |-> Present(<<FALSE>>), priority |-> Absent],
   [title |-> Present(<<"b">>), description |-> Present(<<"d">>), completed |-> Absent, priority |-> Absent],
   [title |-> Absent, description |-> Absent, completed |-> Present(<<TRUE>>), priority |-> Present(<<1>>)]}

ConcIds == {StrOid(NewOid(n)) : n \in 1..MaxOid}

CreateInsertStep(w, body) ==
  LET r == CreateInsert(store, body, nextOid, now) IN
  /\ pc[w] = "ready"
  /\ ~r.done => nextOid <= MaxOid /\ now < MaxClock
  /\ req' = [req EXCEPT ![w] = [Request("create", <<>>, body)
                                  EXCEPT !.inserted_id = r.inserted_id]]
  /\ store' = r.coll
  /\ now' = now + r.ticks
  /\ nextOid' = IF r.done THEN nextOid ELSE nextOid + 1
  /\ created' = IF r.done THEN created ELSE created \cup {NewOid(nextOid)}
  /\ resp' = [resp EXCEPT ![w] = r.resp]
  /\ ops' = [ops EXCEPT ![w] = r.ops]
  /\ pc' = [pc EXCEPT ![w] = IF r.done THEN "responding" ELSE "create_readback"]
  /\ UNCHANGED <<db, deleted>>

CreateReadStep(w) ==
  /\ pc[w] = "create_readback"
  /\ resp' = [resp EXCEPT ![w] = CreateReadBack(store, req[w].inserted_id)]
  /\ ops' = [ops EXCEPT ![w] = Append(@, "find_one")]
  /\ pc' = [pc EXCEPT ![w] = "responding"]
  /\ UNCHANGED <<db, store, nextOid, now, req, created, deleted>>

UpdateWriteStep(w, todo_id, body) ==
  LET r == UpdateWrite(store, todo_id, TodoUpdate(body), now) IN
  /\ pc[w] = "ready"
  /\ r.ticks > 0 => now < MaxClock
  /\ req' = [req EXCEPT ![w] = [Request("update", todo_id, body)
                                  EXCEPT !.stamp = IF r.ticks > 0 THEN <<now>> ELSE None]]
  /\ store' = r.coll
  /\ now' = now + r.ticks
  /\ resp' = [resp EXCEPT ![w] = r.resp]
  /\ ops' = [ops EXCEPT ![w] = r.ops]
  /\ pc' = [pc EXCEPT ![w] = IF r.done THEN "responding" ELSE "update_readback"]
  /\ UNCHANGED <<db, nextOid, created, deleted>>

UpdateReadStep(w) ==
  /\ pc[w] = "update_readback"
  /\ resp' = [resp EXCEPT ![w] = UpdateReadBack(store, req[w].todo_id)]
  /\ ops' = [ops EXCEPT ![w] = Append(@, "find_one")]
  /\ pc' = [pc EXCEPT ![w] = "responding"]
  /\ UNCHANGED <<db, store, nextOid, now, req, created, deleted>>

NextConc ==
  \E w \in Workers :
    \/ \E body \in ConcCreateBodies : CreateInsertStep(w, body)
    \/ CreateReadStep(w)
    \/ \E todo_id \in ConcIds, body \in ConcUpdateBodies : UpdateWriteStep(w, todo_id, body)
    \/ UpdateReadStep(w)
    \/ \E todo_id \in ConcIds : delete_todo(w, todo_id)
    \/ list_todos(w)
    \/ Respond(w)

SpecConc == Init /\ [][NextConc]_vars

\* ======================================================== properties
\* the request worker w has just handled, and its response
Handled(w) == pc[w] = "ready" /\ pc'[w] = "responding"
Responding(w, op) == pc[w] = "responding" /\ req[w].op = op

\* the fields a body supplies with a non-null value
Supplied(body) == {k \in PayloadKeys : body[k] # Absent /\ body[k][1] # None}
\* the stored documents a path id addresses
Target(coll, todo_id) == {d \in coll : d["_id"] = <<ObjectId(todo_id)>>}

\* C1: a successful update changes, on the addressed todo, exactly the
\* supplied non-null fields (to the supplied values) and updated_at; its
\* _id, created_at and every other field keep their values, and every
\* other todo is unchanged.
C1_UpdateFrame ==
  [][\A w \in Workers :
       (Handled(w) /\ req'[w].op = "update" /\ resp'[w].status = 200) =>
         LET body == req'[w].body
             S == Supplied(body)
         IN /\ S # {}
            /\ Cardinality(Target(store, req'[w].todo_id)) = 1
            /\ \E old \in Target(store, req'[w].todo_id) :
               \E new \in Target(store', req'[w].todo_id) :
                 /\ store' \ {new} = store \ {old}
                 /\ DOMAIN new = DOMAIN old \cup S \cup {"updated_at"}
                 /\ \A k \in S : new[k] = body[k][1]
                 /\ new["updated_at"] = <<now>>
                 /\ \A k \in DOMAIN old \ (S \cup {"updated_at"}) : new[k] = old[k]
                 /\ new["_id"] = old["_id"] /\ new["created_at"] = old["created_at"]]_vars

\* C1 witness: a successful update of one field of one of two stored todos
C1_Witness ==
  /\ Responding("w1", "update") /\ resp["w1"].status = 200
  /\ Supplied(req["w1"].body) = {"completed"}
  /\ Cardinality(store) = 2

\* C2: with the database configured, an update on a well-formed id whose
\* body supplies no non-null field fails with 400 and leaves the collection
\* as it was (no updated_at stamp), whether or not the target exists.
C2_EmptyUpdateRejected ==
  [][\A w \in Workers :
       (Handled(w) /\ db /\ req'[w].op = "update" /\ req'[w].todo_id \in WellFormedIds
          /\ Supplied(req'[w].body) = {}) =>
         (resp'[w].status = 400 /\ store' = store /\ ops'[w] = <<>>)]_vars

\* C2 witness: an update with only null fields on a stored todo, rejected
C2_Witness ==
  /\ Responding("w1", "update") /\ resp["w1"].status = 400
  /\ req["w1"].todo_id \in WellFormedIds
  /\ Target(store, req["w1"].todo_id) # {}
  /\ req["w1"].body["description"] = Present(None)

\* C3: with the database configured, update and delete with a malformed
\* identifier fail with 400 (never 404) for any body, before any store
\* access: the collection is the same before and after.
C3_MalformedIdRejected ==
  [][\A w \in Workers :
       (Handled(w) /\ db /\ req'[w].op \in {"update", "delete"}
          /\ req'[w].todo_id \in MalformedIds) =>
         (resp'[w].status = 400 /\ store' = store /\ ops'[w] = <<>>)]_vars

\* C3 witness: an update with a non-empty body and a malformed id is
\* rejected while todos are stored
C3_Witness ==
  /\ Responding("w1", "update") /\ resp["w1"].status = 400
  /\ req["w1"].todo_id \in MalformedIds /\ Len(req["w1"].todo_id) = 2 * OidBytes
  /\ Supplied(req["w1"].body) # {}
  /\ store # {}

\* C4: with the database configured, update (with at least one non-null
\* field) and delete with a well-formed identifier that matches no stored
\* todo fail with 404 and leave the collection unchanged.
C4_NotFound ==
  [][\A w \in Workers :
       (Handled(w) /\ db /\ req'[w].todo_id \in WellFormedIds
          /\ Target(store, req'[w].todo_id) = {}
          /\ \/ req'[w].op = "delete"
             \/ req'[w].op = "update" /\ Supplied(req'[w].body) # {}) =>
         (resp'[w].status = 404 /\ store' = store)]_vars

\* C4 witness: an update of an identifier that matches none of the stored
\* todos answers 404
C4_Witness ==
  /\ Responding("w1", "update") /\ resp["w1"].status = 404
  /\ store # {} /\ Target(store, req["w1"].todo_id) = {}

C6_ListExact ==
  [][\A w \in Workers :
       (Handled(w) /\ req'[w].op = "list" /\ resp'[w].status = 200) =>
         LET todos == resp'[w].todos IN
         /\ store' = store
         /\ Len(todos) = Cardinality(created \ deleted)
         /\ {todos[i]["id"] : i \in 1..Len(todos)} = {<<StrOid(x)>> : x \in created \ deleted}
         /\ \A i, j \in 1..Len(todos) : todos[i]["id"] = todos[j]["id"] => i = j
         /\ deleted = {} => Len(todos) = nextOid - 1]_vars

\* C6 witness: a list of two todos
C6_Witness ==
  /\ Responding("w1", "list") /\ resp["w1"].status = 200
  /\ Len(resp["w1"].todos) = 2

\* C7: with the database configured, a create with a valid payload answers
\* 200 with the supplied fields as given and the omitted ones at their
\* defaults (completed false, priority 2, description null), the id the
\* store assigned, a non-null created_at and a null updated_at; the stored
\* todo holds the same values.
C7_CreateDefaults ==
  \A w \in Workers :
    (/\ Responding(w, "create") /\ db
     /\ req[w].body["title"] # Absent /\ req[w].body["title"] # Present(None)) =>
      LET body == req[w].body
          todo == resp[w].todo
          Expected(k) == IF body[k] # Absent THEN body[k][1]
                         ELSE IF k = "completed" THEN <<FALSE>>
                         ELSE IF k = "priority" THEN <<2>>
                         ELSE None
      IN /\ resp[w].status = 200
         /\ DOMAIN todo = PayloadKeys \cup {"id", "created_at", "updated_at"}
         /\ \A k \in PayloadKeys : todo[k] = Expected(k)
         /\ todo["id"] # None /\ todo["id"] = <<req[w].inserted_id>>
         /\ todo["created_at"] # None /\ todo["updated_at"] = None
         /\ \E d \in store :
              /\ <<StrOid(d["_id"][1])>> = todo["id"]
              /\ \A k \in PayloadKeys : d[k] = Expected(k)

\* C7 witness: a create that sets only the title has answered
C7_Witness ==
  /\ Responding("w1", "create") /\ resp["w1"].status = 200
  /\ \A k \in PayloadKeys \ {"title"} : req["w1"].body[k] = Absent

\* C8 as stated: without a database handle every create, list, update and
\* delete answers 500, for every input, and calls no store operation.
C8_Original ==
  \A w \in Workers :
    (pc[w] = "responding" /\ ~db) => (resp[w].status = 500 /\ ops[w] = <<>> /\ store = {})

\* C8: without a database handle every list, update and delete, and every
\* create whose body passes validation, answers 500 (also for a malformed
\* id or an empty update body) and calls no store operation.
C8_NoHandle ==
  \A w \in Workers :
    (pc[w] = "responding" /\ ~db /\ (req[w].op = "create" => TodoCreateValid(req[w].body))) =>
      (resp[w].status = 500 /\ ops[w] = <<>> /\ store = {})

\* C8 witness: an update with a malformed id answers 500 without a handle
C8_Witness ==
  /\ Responding("w1", "update") /\ ~db /\ resp["w1"].status = 500
  /\ req["w1"].todo_id \in MalformedIds

\* C9 as stated: under any interleaving, every 200 response of update is
\* the post-update entity (the path id, a non-null updated_at, each
\* supplied field at the supplied value) and every 200 response of create
\* carries the id the store assigned; none is an empty object.  (The path
\* id and the response id are compared as identifiers: the response spells
\* the hex digits in lower case whatever the path's spelling.)
C9_Original ==
  \A w \in Workers :
    (pc[w] = "responding" /\ resp[w].status = 200) =>
      /\ req[w].op = "update" =>
           /\ DOMAIN resp[w].todo # {}
           /\ resp[w].todo["id"] # None
           /\ ObjectId(resp[w].todo["id"][1]) = ObjectId(req[w].todo_id)
           /\ resp[w].todo["updated_at"] # None
           /\ \A k \in Supplied(req[w].body) : resp[w].todo[k] = req[w].body[k][1]
      /\ req[w].op = "create" =>
           /\ DOMAIN resp[w].todo # {}
           /\ resp[w].todo["id"] # None
           /\ resp[w].todo["id"] = <<req[w].inserted_id>>

\* an update whose store write matched and whose response is not yet sent
UpdateInFlight(w) ==
  /\ req[w].op = "update"
  /\ \/ pc[w] = "update_readback"
     \/ pc[w] = "responding" /\ resp[w].status = 200

\* C10: two concurrent successful updates of the same todo lose no field
\* write.  When a worker's update_one lands on a todo whose latest write is
\* that of another update still in flight, the todo afterwards holds, for
\* every field only the earlier request supplied, the earlier request's
\* value, and for every field the later request supplied (also one both
\* supplied) the later request's value; _id and created_at, every field
\* neither supplied and every other todo are as before.
C10_NoLostFieldWrite ==
  [][\A w1, w2 \in Workers :
       (/\ w1 # w2
        /\ UpdateInFlight(w1)
        /\ pc[w2] = "ready" /\ pc'[w2] = "update_readback"
        /\ ObjectId(req[w1].todo_id) = ObjectId(req'[w2].todo_id)
        /\ \E d \in Target(store, req[w1].todo_id) : Get(d, "updated_at") = req[w1].stamp) =>
         LET b1 == req[w1].body
             b2 == req'[w2].body
         IN \E old \in Target(store, req[w1].todo_id) :
            \E new \in Target(store', req[w1].todo_id) :
              /\ store' \ {new} = store \ {old}
              /\ \A k \in Supplied(b2) : Get(new, k) = b2[k][1]
              /\ \A k \in Supplied(b1) \ Supplied(b2) : Get(new, k) = b1[k][1]
              /\ \A k \in PayloadKeys \ (Supplied(b1) \cup Supplied(b2)) : Get(new, k) = Get(old, k)
              /\ Get(new, "updated_at") = req'[w2].stamp
              /\ Get(new, "_id") = Get(old, "_id")
              /\ Get(new, "created_at") = Get(old, "created_at")
              /\ Get(new, "created_at") # None]_vars

\* C10 witness: two updates of the same todo in flight, the earlier one
\* supplying completed, the later one completed (another value) and
\* priority, both before their read-back
C10_Witness ==
  /\ pc["w1"] = "update_readback" /\ pc["w2"] = "update_readback"
  /\ req["w1"].todo_id = req["w2"].todo_id
  /\ req["w1"].stamp[1] < req["w2"].stamp[1]
  /\ req["w1"].body["completed"] = Present(<<FALSE>>)
  /\ Supplied(req["w2"].body) = {"completed", "priority"}
  /\ \E d \in store : d["completed"] = <<TRUE>> /\ d["priority"] = <<1>>

====
